---- MODULE Spec2Model ----
(***************************************************************************)
(* SearchEngine.search of ReddyGPT_13.py: three engine coroutines are run  *)
(* under asyncio.gather, their lists are merged in configuration order,    *)
(* deduplicated by url and cut to the first ten entries.                   *)
(*                                                                         *)
(* asyncio is single threaded: code between two awaits is one step.  The   *)
(* steps of one invocation are: the call itself (coroutines created and    *)
(* handed to gather), each engine task running up to its network await,    *)
(* each engine task settling on its response, and search resuming after    *)
(* gather to run the (await-free) dedup loop and return.                   *)
(***************************************************************************)
EXTENDS Naturals, Sequences, FiniteSets

\* ------------------------------------------------------------ bounds
\* Longest provider response built freely from SmallItems.
MaxLen == 2

\* ------------------------------------------------- program constants
\* deduped[:10]
TotalLimit == 10
\* 'num': 5 / max_results=5, the count each engine is asked for
PerEngineLimit == 5

\* self.engines, a dict: values() iterates in insertion order
EngineOrder == <<"google", "serpapi", "duckduckgo">>
Engines == {EngineOrder[i] : i \in 1..Len(EngineOrder)}

\* Invocations of search on the one SearchEngine instance.
Calls == {1, 2}

\* Python's None, and the marker of a key absent from a raw item (dict).
None == "<None>"
Missing == "<missing>"

\* ------------------------------------------------ provider responses
\* A raw item as the provider sends it: link stands for 'link' (google,
\* serpapi) or 'href' (duckduckgo), snippet for 'snippet' or 'body'.
SmallItems ==
    { [link |-> "u1",    title |-> "T1",    snippet |-> Missing],
      [link |-> "u1",    title |-> Missing, snippet |-> "S2"],
      [link |-> Missing, title |-> "T3",    snippet |-> "S3"] }

UrlPool == <<"u1", "u2", "u3", "u4", "u5", "u6",
             "u7", "u8", "u9", "u10", "u11", "u12">>

Min(a, b) == IF a <= b THEN a ELSE b

\* n complete items with consecutive urls of the pool, starting at lo.
Bulk(lo, n) ==
    [k \in 1..Min(n, Len(UrlPool) - lo + 1) |->
        [link |-> UrlPool[lo + k - 1], title |-> "T", snippet |-> "S"]]

BulkStarts == {1, 4, 7}
BulkLens == {2, PerEngineLimit, PerEngineLimit + 1}

SmallLists == UNION {[1..n -> SmallItems] : n \in 0..MaxLen}

\* A response that makes the adapter's try block raise before any item is
\* read: network error, timeout, a body that is not JSON.
Failure == [ok |-> FALSE, items |-> <<>>]
Ok(items) == [ok |-> TRUE, items |-> items]

Responses ==
    {Failure} \cup {Ok(l) : l \in SmallLists}
              \cup {Ok(Bulk(lo, n)) : lo \in BulkStarts, n \in BulkLens}

\* The responses of the two-invocation specification.
ConcResponses ==
    { Failure,
      Ok(<< [link |-> "u1", title |-> "T1", snippet |-> Missing],
            [link |-> Missing, title |-> "T3", snippet |-> "S3"] >>),
      Ok(Bulk(1, 2)) }

\* ----------------------------------------------------------- adapters
\* dict.get(key, default)
Get(v, default) == IF v = Missing THEN default ELSE v

\* What an engine coroutine ends with: its list, whether it logged an error,
\* whether an exception left it.
Returned(list) == [raised |-> FALSE, logged |-> FALSE, list |-> list]

OnErrorRaise(engine) == [raised |-> TRUE, logged |-> TRUE, list |-> <<>>]

OnErrorPlaceholder(engine) ==
    [raised |-> FALSE, logged |-> TRUE,
     list |-> << [title |-> "error", url |-> "#", snippet |-> "",
                  engine |-> engine] >>]

\* except Exception as e: logging.error(...); return []
OnError(engine) == [raised |-> FALSE, logged |-> TRUE, list |-> <<>>]

\* item['title'] and item['link'] raise KeyError on an absent key; the
\* comprehension is inside the try, so the whole list is lost.
GoogleSearch(resp) ==
    IF ~resp.ok THEN OnError("google")
    ELSE IF \E i \in 1..Len(resp.items) :
                resp.items[i].title = Missing \/ resp.items[i].link = Missing
         THEN OnError("google")
    ELSE Returned([i \in 1..Len(resp.items) |->
            [title   |-> resp.items[i].title,
             url     |-> resp.items[i].link,
             snippet |-> Get(resp.items[i].snippet, ""),
             engine  |-> "google"]])

\* item.get('title') and item.get('link') have no default: None
SerpapiSearch(resp) ==
    IF ~resp.ok THEN OnError("serpapi")
    ELSE Returned([i \in 1..Len(resp.items) |->
            [title   |-> Get(resp.items[i].title, None),
             url     |-> Get(resp.items[i].link, None),
             snippet |-> Get(resp.items[i].snippet, ""),
             engine  |-> "serpapi"]])

DuckduckgoSearch(resp) ==
    IF ~resp.ok THEN OnError("duckduckgo")
    ELSE Returned([i \in 1..Len(resp.items) |->
            [title   |-> Get(resp.items[i].title, ""),
             url     |-> Get(resp.items[i].link, "#"),
             snippet |-> Get(resp.items[i].snippet, ""),
             engine  |-> "duckduckgo"]])

EngineCall(engine, resp) ==
    CASE engine = "google"     -> GoogleSearch(resp)
      [] engine = "serpapi"    -> SerpapiSearch(resp)
      [] engine = "duckduckgo" -> DuckduckgoSearch(resp)

\* -------------------------------------------------------------- state
VARIABLES
    phase,      \* per call: "idle", "gathering", "returned", "raised"
    tasks,      \* per call and engine: "none", "created", "waiting", "done"
    results,    \* per call and engine: the list the engine task returned
    doneOrder,  \* per call: the engines in the order their tasks finished
    errorLog,   \* per call: the engines that wrote a logging.error line
    out,        \* per call: the list search returned
    overlap     \* a call was made while another was awaiting its gather

vars == <<phase, tasks, results, doneOrder, errorLog, out, overlap>>

Init ==
    /\ phase = [c \in Calls |-> "idle"]
    /\ tasks = [c \in Calls |-> [e \in Engines |-> "none"]]
    /\ results = [c \in Calls |-> [e \in Engines |-> <<>>]]
    /\ doneOrder = [c \in Calls |-> <<>>]
    /\ errorLog = [c \in Calls |-> {}]
    /\ out = [c \in Calls |-> <<>>]
    /\ overlap = FALSE

\* ------------------------------------------------------------- search
\* seen_urls = set(), a local of the invocation
SeenUrlsShared(c) ==
    UNION {{out[d][i].url : i \in 1..Len(out[d])} : d \in Calls \ {c}}

SeenUrlsInit(c) == {}

DedupStepNoAdd(acc, item) ==
    IF item.url \notin acc.seen_urls
    THEN [seen_urls |-> acc.seen_urls, deduped |-> Append(acc.deduped, item)]
    ELSE acc

DedupStepKeepLast(acc, item) ==
    IF item.url \notin acc.seen_urls
    THEN [seen_urls |-> acc.seen_urls \cup {item.url},
          deduped |-> Append(acc.deduped, item)]
    ELSE [seen_urls |-> acc.seen_urls,
          deduped |-> [i \in 1..Len(acc.deduped) |->
                          IF acc.deduped[i].url = item.url THEN item
                          ELSE acc.deduped[i]]]

DedupStepPrepend(acc, item) ==
    IF item.url \notin acc.seen_urls
    THEN [seen_urls |-> acc.seen_urls \cup {item.url},
          deduped |-> <<item>> \o acc.deduped]
    ELSE acc

\* if item['url'] not in seen_urls: deduped.append(item); seen_urls.add(...)
DedupStep(acc, item) ==
    IF item.url \notin acc.seen_urls
    THEN [seen_urls |-> acc.seen_urls \cup {item.url},
          deduped |-> Append(acc.deduped, item)]
    ELSE acc

\* for item in engine_results
RECURSIVE InnerLoop(_, _, _)
InnerLoop(engine_results, i, acc) ==
    IF i > Len(engine_results) THEN acc
    ELSE InnerLoop(engine_results, i + 1, DedupStep(acc, engine_results[i]))

\* for engine_results in results
RECURSIVE OuterLoop(_, _, _)
OuterLoop(rs, k, acc) ==
    IF k > Len(rs) THEN acc
    ELSE OuterLoop(rs, k + 1, InnerLoop(rs[k], 1, acc))

NoTruncate(deduped) == deduped

\* deduped[:10]
Truncate(deduped) == SubSeq(deduped, 1, Min(Len(deduped), TotalLimit))

GatherAsCompleted(c) ==
    [k \in 1..Len(doneOrder[c]) |-> results[c][doneOrder[c][k]]]

\* what await asyncio.gather(*tasks) yields: the tasks' results in the
\* order the awaitables were passed, whatever order they finished in
GatherResults(c) ==
    [k \in 1..Len(EngineOrder) |-> results[c][EngineOrder[k]]]

AnySettled(c) == \E e \in Engines : tasks[c][e] = "done"

\* gather's future completes when every child has finished
AllSettled(c) == \A e \in Engines : tasks[c][e] = "done"

\* tasks = [engine(query) for engine in self.engines.values()], handed to
\* gather, which schedules one task per coroutine; search then suspends.
Search(c) ==
    /\ phase[c] = "idle"
    /\ phase' = [phase EXCEPT ![c] = "gathering"]
    /\ tasks' = [tasks EXCEPT ![c] = [e \in Engines |-> "created"]]
    /\ overlap' = (overlap \/ \E d \in Calls \ {c} : phase[d] = "gathering")
    /\ UNCHANGED <<results, doneOrder, errorLog, out>>

\* An engine task runs up to its network await (session.get / ddgs.text).
EngineStart(c, e) ==
    /\ tasks[c][e] = "created"
    /\ tasks' = [tasks EXCEPT ![c][e] = "waiting"]
    /\ UNCHANGED <<phase, results, doneOrder, errorLog, out, overlap>>

\* The response (or the failure) arrives and the engine coroutine runs to
\* its end.  gather hands an exception of a child to search at once.
EngineSettle(c, e, resp) ==
    /\ tasks[c][e] = "waiting"
    /\ LET r == EngineCall(e, resp) IN
        /\ tasks' = [tasks EXCEPT ![c][e] = "done"]
        /\ results' = [results EXCEPT ![c][e] = r.list]
        /\ doneOrder' = [doneOrder EXCEPT ![c] = Append(@, e)]
        /\ errorLog' = [errorLog EXCEPT
                          ![c] = IF r.logged THEN @ \cup {e} ELSE @]
        /\ phase' = [phase EXCEPT
                       ![c] = IF r.raised /\ @ = "gathering"
                              THEN "raised" ELSE @]
    /\ UNCHANGED <<out, overlap>>

\* search resumes with gather's list, runs the dedup loop and returns.
MergeAndReturn(c) ==
    /\ phase[c] = "gathering"
    /\ AllSettled(c)
    /\ LET acc == OuterLoop(GatherResults(c), 1,
                    [seen_urls |-> SeenUrlsInit(c), deduped |-> <<>>])
       IN out' = [out EXCEPT ![c] = Truncate(acc.deduped)]
    /\ phase' = [phase EXCEPT ![c] = "returned"]
    /\ UNCHANGED <<tasks, results, doneOrder, errorLog, overlap>>

\* One invocation of search.
Next ==
    \/ Search(1)
    \/ \E e \in Engines : EngineStart(1, e)
    \/ \E e \in Engines, resp \in Responses : EngineSettle(1, e, resp)
    \/ MergeAndReturn(1)

Spec == Init /\ [][Next]_vars

\* Two invocations on the same instance, interleaved at every await.
NextConcurrent ==
    \/ \E c \in Calls : Search(c)
    \/ \E c \in Calls, e \in Engines : EngineStart(c, e)
    \/ \E c \in Calls, e \in Engines, resp \in ConcResponses :
          EngineSettle(c, e, resp)
    \/ \E c \in Calls : MergeAndReturn(c)

SpecConcurrent == Init /\ [][NextConcurrent]_vars

\* ------------------------------------------------- reference notions
\* The lists of the engines in E, chained in configuration order.
RECURSIVE ChainFrom(_, _, _)
ChainFrom(c, E, k) ==
    IF k > Len(EngineOrder) THEN <<>>
    ELSE (IF EngineOrder[k] \in E THEN results[c][EngineOrder[k]] ELSE <<>>)
         \o ChainFrom(c, E, k + 1)

Chain(c, E) == ChainFrom(c, E, 1)

\* s[i] is the first entry of s with its url.
IsFirst(s, i) == \A j \in 1..(i - 1) : s[j].url # s[i].url

\* The first occurrences of s, in the order of s.
RECURSIVE FirstsFrom(_, _)
FirstsFrom(s, i) ==
    IF i > Len(s) THEN <<>>
    ELSE (IF IsFirst(s, i) THEN <<s[i]>> ELSE <<>>) \o FirstsFrom(s, i + 1)

\* What search returns for the engines in E alone: first occurrences of the
\* chained lists, at most TotalLimit of them.
Expected(c, E) ==
    LET f == FirstsFrom(Chain(c, E), 1)
    IN SubSeq(f, 1, Min(Len(f), TotalLimit))

UrlsOf(s) == {s[i].url : i \in 1..Len(s)}

Rank(e) == CHOOSE k \in 1..Len(EngineOrder) : EngineOrder[k] = e

\* The engines whose list holds url u.
Holders(c, u) == {e \in Engines : u \in UrlsOf(results[c][e])}

\* The first entry with url u in the chained lists of all engines.
FirstCopy(c, u) ==
    LET s == Chain(c, Engines)
    IN s[CHOOSE i \in 1..Len(s) : s[i].url = u /\ IsFirst(s, i)]

\* How many distinct urls the chained lists hold up to the first copy of u.
DistinctUpTo(c, u) ==
    LET s == Chain(c, Engines)
        i == CHOOSE k \in 1..Len(s) : s[k].url = u /\ IsFirst(s, k)
    IN Cardinality({s[k].url : k \in 1..i})

CopiesIn(s, u) == Cardinality({i \in 1..Len(s) : s[i].url = u})

HasRepeat(s) == \E i, j \in 1..Len(s) : i # j /\ s[i].url = s[j].url

\* -------------------------------------------------------------- claims

\* C1: the list search returns never holds two entries with the same url,
\* whatever the engines returned (repeats inside one list, '#', None).
C1_NoDuplicateUrl ==
    \A c \in Calls : \A i, j \in 1..Len(out[c]) :
        i # j => out[c][i].url # out[c][j].url

C1_Witness ==
    /\ phase[1] = "returned"
    /\ HasRepeat(results[1]["google"])
    /\ HasRepeat(results[1]["serpapi"])
    /\ "#" \in UrlsOf(out[1])
    /\ None \in UrlsOf(out[1])
    /\ "u1" \in UrlsOf(out[1])

\* C2: the list search returns has at most TotalLimit (10) entries, also
\* when an engine returns more than the 5 results it was asked for.
C2_AtMostTotalLimit ==
    \A c \in Calls : Len(out[c]) <= TotalLimit

C2_Witness ==
    /\ phase[1] = "returned"
    /\ Len(out[1]) = TotalLimit
    /\ Cardinality(UrlsOf(Chain(1, Engines))) > TotalLimit
    /\ \E e \in Engines : Len(results[1][e]) > PerEngineLimit

\* C3: an engine whose call failed contributes the empty list, no failure
\* leaves search, and search returns what the engines that did not fail
\* would give alone, in the same order.
C3_FailedEngineInvisible ==
    \A c \in Calls :
        /\ phase[c] # "raised"
        /\ \A e \in errorLog[c] : results[c][e] = <<>>
        /\ phase[c] = "returned" => out[c] = Expected(c, Engines \ errorLog[c])

C3_Witness ==
    /\ phase[1] = "returned"
    /\ errorLog[1] = {"serpapi"}
    /\ Len(results[1]["google"]) = 2
    /\ Len(results[1]["duckduckgo"]) = 2
    /\ Len(out[1]) >= 3

\* C4 as stated: a url that two engines return has exactly one entry in the
\* output, the copy of the first of them in merge order.
C4_Original ==
    \A c \in Calls : phase[c] = "returned" =>
        \A u \in UrlsOf(Chain(c, Engines)) :
            Cardinality(Holders(c, u)) >= 2 =>
                /\ CopiesIn(out[c], u) = 1
                /\ \A i \in 1..Len(out[c]) :
                       out[c][i].url = u => out[c][i] = FirstCopy(c, u)

\* C4 as amended: a url that two engines return has at most one entry in
\* the output, and that entry is the copy of the first of them in merge
\* order; it has exactly one when its first copy is among the first
\* TotalLimit distinct urls of the merge, which is always so when no engine
\* returns more than the 5 results it was asked for.
C4_FirstEngineWins ==
    \A c \in Calls : phase[c] = "returned" =>
        \A u \in UrlsOf(Chain(c, Engines)) :
            Cardinality(Holders(c, u)) >= 2 =>
                /\ CopiesIn(out[c], u) <= 1
                /\ \A i \in 1..Len(out[c]) :
                       out[c][i].url = u =>
                           /\ out[c][i] = FirstCopy(c, u)
                           /\ \A e \in Holders(c, u) :
                                  Rank(out[c][i].engine) <= Rank(e)
                /\ DistinctUpTo(c, u) <= TotalLimit => CopiesIn(out[c], u) = 1
                /\ (\A e \in Engines : Len(results[c][e]) <= PerEngineLimit)
                       => CopiesIn(out[c], u) = 1

C4_Witness ==
    /\ phase[1] = "returned"
    /\ Holders(1, "u1") = Engines
    /\ results[1]["google"][1].title # results[1]["serpapi"][1].title
    /\ results[1]["serpapi"][1].url = "u1"
    /\ results[1]["duckduckgo"][1].url = "u1"
    /\ out[1][1] = results[1]["google"][1]
    /\ CopiesIn(out[1], "u1") = 1

\* C5: for given lists of the engines, the output is the same whatever the
\* order in which the engine calls completed.
C5_CompletionOrderIrrelevant ==
    \A c \in Calls : phase[c] = "returned" =>
        /\ Len(doneOrder[c]) = Len(EngineOrder)
        /\ out[c] = Expected(c, Engines)

C5_Witness ==
    /\ phase[1] = "returned"
    /\ doneOrder[1] = <<"duckduckgo", "serpapi", "google">>
    /\ \A e \in Engines : results[1][e] # <<>>
    /\ out[1][1].engine = "google"
    /\ \E i \in 1..Len(out[1]) : out[1][i].engine = "duckduckgo"

\* C6: search neither merges nor returns before every engine call has
\* settled; one engine having responded is not enough.
C6_WaitsForAll ==
    \A c \in Calls :
        (phase[c] = "returned" \/ out[c] # <<>>) =>
            /\ \A e \in Engines : tasks[c][e] = "done"
            /\ Len(doneOrder[c]) = Len(EngineOrder)

C6_Witness ==
    /\ phase[1] = "gathering"
    /\ tasks[1]["duckduckgo"] = "done"
    /\ results[1]["duckduckgo"] # <<>>
    /\ tasks[1]["google"] = "waiting"
    /\ tasks[1]["serpapi"] = "created"
    /\ out[1] = <<>>

\* C7: the output keeps each engine's own order and puts every kept result
\* of an earlier engine before every kept result of a later one; lists with
\* pairwise distinct urls that fit the limit come out chained as they are.
C7_OrderKept ==
    \A c \in Calls : phase[c] = "returned" =>
        /\ \A i, j \in 1..Len(out[c]) : i < j =>
              /\ Rank(out[c][i].engine) <= Rank(out[c][j].engine)
              /\ out[c][i].engine = out[c][j].engine =>
                    LET l == results[c][out[c][i].engine]
                    IN \E a, b \in 1..Len(l) :
                          a < b /\ l[a] = out[c][i] /\ l[b] = out[c][j]
        /\ (~HasRepeat(Chain(c, Engines))
            /\ Len(Chain(c, Engines)) <= TotalLimit)
              => out[c] = Chain(c, Engines)

C7_Witness ==
    /\ phase[1] = "returned"
    /\ Len(results[1]["google"]) = 2
    /\ Len(results[1]["serpapi"]) = 2
    /\ results[1]["duckduckgo"] = <<>>
    /\ Len(out[1]) = 4
    /\ out[1] = results[1]["google"] \o results[1]["serpapi"]

\* C8: every record of the output has a title and a snippet that are not
\* None, also for raw items without a title or snippet field.
C8_TitleSnippetPresent ==
    \A c \in Calls : \A i \in 1..Len(out[c]) :
        out[c][i].title # None /\ out[c][i].snippet # None

\* C9: when every engine call failed or returned the empty list, search
\* returns the empty list and raises nothing.
C9_TotalFailureIsEmpty ==
    \A c \in Calls :
        (\A e \in Engines :
            /\ tasks[c][e] = "done"
            /\ e \in errorLog[c] \/ results[c][e] = <<>>)
        => /\ phase[c] \in {"gathering", "returned"}
           /\ phase[c] = "returned" => out[c] = <<>>

C9_Witness ==
    /\ phase[1] = "returned"
    /\ errorLog[1] = Engines
    /\ out[1] = <<>>

\* C10: invocations of search that overlap on one instance each return the
\* list they return when run alone: the seen-url set and the result list of
\* one are not seen or changed by another.
C10_CallsIsolated ==
    \A c \in Calls : phase[c] = "returned" =>
        /\ out[c] = Expected(c, Engines)
        /\ \A d \in Calls \ {c} :
               phase[d] \in {"idle", "gathering"} => out[d] = <<>>

C10_Witness ==
    /\ overlap
    /\ phase[1] = "returned"
    /\ phase[2] = "returned"
    /\ out[1] # <<>>
    /\ UrlsOf(out[1]) \cap UrlsOf(out[2]) # {}
    /\ out[1] # out[2]

====
